---- MODULE Spec2Model ----
(***************************************************************************)
(* The zls backend of mise (src/plugins/core/zls.rs): the install pipeline *)
(* install_version_ = download ; install ; verify, with every call to a    *)
(* collaborator (toolset, HTTP, minisign, filesystem, the installed        *)
(* binary) as one step whose outcome the environment chooses, and the      *)
(* remote version catalog list_remote_versions as a pure function.         *)
(***************************************************************************)
EXTENDS Integers, Sequences, FiniteSets, TLC

VARIABLES
    host,          \* the build target: cfg!(target_os), cfg!(unix), SETTINGS.arch()
    pc,            \* position of the install attempt inside install_version_
    tv,            \* the ToolVersion passed to install_version_
    ctx,           \* the InstallContext: the toolset's view of zig
    zls_version,   \* download(): the version sent to the selector
    version_json,  \* fetch_url_from_zigtools(): index of the selector response, 0 = none
    url,           \* download(): the tarball URL
    tarball_data,  \* download(): the bytes read back from the staging path
    sig,           \* download(): the fetched signature
    staged,        \* filesystem: the file under tv.download_path(), per version
    dir,           \* filesystem: tv.install_path(), per version
    trace,         \* the collaborator calls of the current attempt, in order
    result,        \* what install_version_ returned (or how it ended)
    probe,         \* first line of the installed binary's stdout in verify()
    stdout,        \* bin_version(): what the installed binary printed
    pr,            \* ctx.pr: the last message given to the progress sink
    lastOk,        \* per version: tarball and tree of the last successful install
    prevOk,        \* lastOk of tv's version as it was when the current attempt began
    dir0,          \* dir as it was when the current attempt began
    attempts,      \* how many times install_version_ has been called
    tags,          \* list_remote_versions: the tag names github::list_releases gave
    versions,      \* list_remote_versions: its return value
    platform_key,  \* fetch_url_from_zigtools(): os_key, once it has been formatted
    activated,     \* Deactivate::run: what env::is_activated() answers
    shell_in_env,  \* Deactivate::run: the shell get_shell(None) can detect, if any
    old_env,       \* Deactivate::run: the variables hook_env has recorded as changed
    run_pc,        \* Deactivate::run: position inside run
    run_trace,     \* Deactivate::run: the calls made so far, in order
    run_result     \* Deactivate::run: what run returned (or how it ended)

installVars == <<host, pc, tv, ctx, zls_version, version_json, url, tarball_data,
                 sig, staged, dir, trace, result, probe, stdout, pr, lastOk, prevOk, dir0,
                 attempts>>
catalogVars == <<tags, versions>>
platformVars == <<platform_key>>
deactivateVars == <<activated, shell_in_env, old_env, run_pc, run_trace, run_result>>
vars == <<installVars, catalogVars, platformVars, deactivateVars>>

-----------------------------------------------------------------------------
(* Small helpers *)

Last(s) == s[Len(s)]

Range(s) == {s[i] : i \in 1..Len(s)}

NoValue == "none"

-----------------------------------------------------------------------------
(* Platform: os() and arch(), zls.rs 184-209 *)

\* A build target: cfg!(target_os), the static OS, the unix/windows cfg flags
\* and the value of SETTINGS.arch().
Target(o, a) ==
    [target_os |-> o, OS |-> o, unix |-> o # "windows", windows |-> o = "windows",
     arch |-> a]

\* The build targets the install pipeline is run on.
Hosts ==
    { Target("linux", "x86_64"), Target("linux", "arm"), Target("windows", "x86_64") }

\* The build targets the platform key is computed for.
TargetOses == {"macos", "linux", "freebsd", "netbsd", "openbsd", "android",
               "illumos", "windows"}

Archs == {"x86_64", "aarch64", "arm", "riscv64", "x86", "powerpc64", "s390x"}

Platforms == {Target(o, a) : o \in TargetOses, a \in Archs}


os(h) ==
    IF h.target_os = "macos" THEN "macos"
    ELSE IF h.target_os = "linux" THEN "linux"
    ELSE IF h.target_os = "freebsd" THEN "freebsd"
    ELSE h.OS

\* Variant: the name SETTINGS.arch() gives is used as it is.
arch_as_given(h) == h.arch

arch(h) ==
    IF h.arch = "x86_64" THEN "x86_64"
    ELSE IF h.arch = "aarch64" THEN "aarch64"
    ELSE IF h.arch = "arm" THEN "armv7a"
    ELSE IF h.arch = "riscv64" THEN "riscv64"
    ELSE h.arch

os_key(h) == os(h) \o "-" \o arch(h)

-----------------------------------------------------------------------------
(* The selector's JSON responses (serde_json::Value) *)

JNum(n) == [t |-> "num", v |-> n]
JStr(s) == [t |-> "str", v |-> s]
JObj(o) == [t |-> "obj", v |-> o]

\* Value::get(key): Some(member) on an object that has the key, else None
JHas(j, k) == j.t = "obj" /\ k \in DOMAIN j.v
JGet(j, k) == j.v[k]

\* Value::as_str(): Some on a JSON string only
JIsStr(j) == j.t = "str"

\* Display of a Value inside format!("{}")
JDisplay(j) ==
    IF j.t = "num" THEN ToString(j.v)
    ELSE IF j.t = "str" THEN "\"" \o j.v \o "\""
    ELSE "{..}"

UrlA == "https://builds.zigtools.org/zls-0.14.0.tar.xz"
UrlB == "https://builds.zigtools.org/zls-0.13.0.tar.xz"

Build(u) == JObj("tarball" :> JStr(u))

AllPlatforms(u) ==
    ("linux-x86_64" :> Build(u)) @@ ("linux-armv7a" :> Build(u))
        @@ ("windows-x86_64" :> Build(u))

\* The responses the selector may give: error envelopes (one of them also
\* carrying platform entries, one without a string message), full platform
\* maps, a map without any of the hosts' keys, and maps whose entry has no
\* string-valued tarball.
Responses ==
    << JObj(("code" :> JNum(404)) @@ ("message" :> JStr("Version not found"))
              @@ AllPlatforms(UrlA)),
       JObj("code" :> JNum(500)),
       JObj(AllPlatforms(UrlA)),
       JObj(("linux-x86_64" :> Build(UrlB)) @@ ("linux-arm" :> Build(UrlB))
              @@ ("windows-x86_64" :> Build(UrlB))),
       JObj("macos-aarch64" :> Build(UrlA)),
       JObj(("linux-x86_64" :> JObj("tarball" :> JNum(1)))
              @@ ("linux-armv7a" :> JObj("size" :> JNum(1)))
              @@ ("windows-x86_64" :> JStr(UrlA))) >>

NoResponse == 0

-----------------------------------------------------------------------------
(* Results: eyre::Result *)

Ok(v)  == [ok |-> TRUE,  v |-> v]
Err(m) == [ok |-> FALSE, v |-> m]

NoResult == [ok |-> FALSE, v |-> "pending"]
Panic    == [ok |-> FALSE, v |-> "panic: unsupported tool version request type"]

\* versions before list_remote_versions has been called
CatalogNotCalled == Err("not called")

\* Deactivate::run before it has been called, in a session where mise is
\* not activated and no shell can be detected.
RunNotCalled == Err("not called yet")

DeactivateIdle ==
    /\ activated = FALSE
    /\ shell_in_env = NoValue
    /\ old_env = << >>
    /\ run_pc = "idle"
    /\ run_trace = << >>
    /\ run_result = RunNotCalled

-----------------------------------------------------------------------------
(* fetch_url_from_zigtools, zls.rs 118-141 *)

json_url(v) ==
    "https://releases.zigtools.org/v1/zls/select-version?zig_version=" \o v
        \o "&compatibility=only-runtime"

\* version_json["message"].as_str().unwrap_or("Unknown error")
envelope_message(j) ==
    IF JHas(j, "message") /\ JIsStr(JGet(j, "message"))
    THEN JGet(j, "message").v
    ELSE "Unknown error"

ApiError(j) ==
    "ZLS API error (code " \o JDisplay(JGet(j, "code")) \o "): " \o envelope_message(j)

NoBuildError(v, key) == "No compatible ZLS build found for " \o v \o " on " \o key

\* Variant: the platform entry is looked up before the error code.
url_from_json_platform_first(j, v, h) ==
    IF /\ JHas(j, os_key(h))
       /\ JHas(JGet(j, os_key(h)), "tarball")
       /\ JIsStr(JGet(JGet(j, os_key(h)), "tarball"))
    THEN Ok(JGet(JGet(j, os_key(h)), "tarball").v)
    ELSE IF JHas(j, "code") THEN Err(ApiError(j))
         ELSE Err(NoBuildError(v, os_key(h)))

\* Variant: the tarball member is used without the as_str() test.
url_from_json_any_tarball(j, v, h) ==
    IF JHas(j, "code") THEN Err(ApiError(j))
    ELSE IF JHas(j, os_key(h)) /\ JHas(JGet(j, os_key(h)), "tarball")
         THEN LET t == JGet(JGet(j, os_key(h)), "tarball") IN
                Ok(IF JIsStr(t) THEN t.v ELSE JDisplay(t))
         ELSE Err(NoBuildError(v, os_key(h)))

\* The part of fetch_url_from_zigtools after the response has arrived.
url_from_json(j, v, h) ==
    IF JHas(j, "code") THEN Err(ApiError(j))
    ELSE IF /\ JHas(j, os_key(h))
            /\ JHas(JGet(j, os_key(h)), "tarball")
            /\ JIsStr(JGet(JGet(j, os_key(h)), "tarball"))
         THEN Ok(JGet(JGet(j, os_key(h)), "tarball").v)
         ELSE Err(NoBuildError(v, os_key(h)))

-----------------------------------------------------------------------------
(* Artifacts and signatures *)

MINISIGN_KEY == "RWR+9B91GBZ0zOjh6Lr17+zKf5BoSuFvrx2xSeDE57uIYvnKBGmMjOex"

\* Name of the executable inside a published archive for the host.
BinName(h) == IF h.windows THEN "zls.exe" ELSE "zls"

\* The byte strings a download can deliver: two published archives and one
\* tampered archive.  An archive is its list of entries, in archive order;
\* every published archive wraps its files in one top-level directory.
TarballIds == {"A", "B", "X"}

Entry(p, d) == [path |-> p, data |-> d]

Tarball(id, h) ==
    IF id = "A" THEN << Entry(<<"zls-a">>, "dir"),
                        Entry(<<"zls-a", BinName(h)>>, "A:zls"),
                        Entry(<<"zls-a", "README.md">>, "A:readme") >>
    ELSE IF id = "B" THEN << Entry(<<"zls-b", BinName(h)>>, "B:zls") >>
    ELSE << Entry(<<"zls-a", BinName(h)>>, "X:zls") >>

\* The signatures a fetch can deliver.  The publisher's key has signed the
\* published archives only; anything else is signed with some other key.
Signatures ==
    { [key |-> MINISIGN_KEY, of |-> "A"],
      [key |-> MINISIGN_KEY, of |-> "B"],
      [key |-> "attacker",   of |-> "X"] }

NoSig == [key |-> NoValue, of |-> NoValue]

\* minisign::verify(key, data, sig), zls.rs 85
minisign_verify(key, data, s) == s.key = key /\ s.of = data

-----------------------------------------------------------------------------
(* The filesystem under tv.install_path() *)

Absent == [exists |-> FALSE, files |-> {}]

\* file::remove_all
remove_all(d) == Absent

Strip(p, n) == SubSeq(p, n + 1, Len(p))

\* The entries among the first k of an archive that survive stripping n
\* leading path components.
Extracted(entries, k, n) ==
    { Entry(Strip(entries[i].path, n), entries[i].data) :
        i \in {j \in 1..k : Len(entries[j].path) > n} }

Overlay(old, new) ==
    {f \in old : \A g \in new : g.path # f.path} \cup new

\* file::untar with strip_components n, stopped after k entries
\* (k = Len(entries) is a complete extraction).
untar(d, entries, k, n) ==
    [exists |-> TRUE, files |-> Overlay(d.files, Extracted(entries, k, n))]

BinDir  == Entry(<<"bin">>, "dir")
Symlink == Entry(<<"bin", "zls">>, "-> ../zls")

\* file::create_dir_all(install_path/bin), zls.rs 105
create_dir_all(d) == [exists |-> TRUE, files |-> Overlay(d.files, {BinDir})]

\* file::make_symlink("../zls", install_path/bin/zls), zls.rs 106
make_symlink(d) == [exists |-> TRUE, files |-> Overlay(d.files, {Symlink})]

IsFile(d, p) == \E f \in d.files : f.path = p /\ f.data \notin {"dir", Symlink.data}

\* Paths are sequences of components relative to tv.install_path().

\* Variant: the binary is looked for at the top of the install directory.
bin_path_in_root(h, bin_name) ==
    IF h.windows THEN <<bin_name \o ".exe">> ELSE <<bin_name>>

\* bin_path, zls.rs 34-40
bin_path(h, bin_name) ==
    IF h.windows THEN <<bin_name \o ".exe">> ELSE <<"bin", bin_name>>

\* list_bin_paths, zls.rs 163-169
list_bin_paths(h) == IF h.windows THEN {<< >>} ELSE {<<"bin">>}

\* The path p after following a "../zls" link found at p.
Follow(d, p) ==
    IF Entry(p, Symlink.data) \in d.files
    THEN SubSeq(p, 1, Len(p) - 2) \o <<"zls">>
    ELSE p

\* Whether self.bin_path(tv, "zls") names an executable file, zls.rs 46.
bin_path_runs(d, h) == IsFile(d, Follow(d, bin_path(h, "zls")))

-----------------------------------------------------------------------------
(* Inputs of install_version_ *)

\* ToolVersion: the request shape and the version string.  A Prefix request
\* arrives resolved to the full version it matched.
ToolVersions ==
    { [request |-> "Version", version |-> "0.14.0"],
      [request |-> "Prefix",  version |-> "0.14.0"],
      [request |-> "Ref",     version |-> "ref:zig"],
      [request |-> "Sub",     version |-> "sub-1:0.14.0"],
      [request |-> "Path",    version |-> "path:/opt/zls"],
      [request |-> "System",  version |-> "system"] }

NoTv == [request |-> NoValue, version |-> NoValue]

VersionStrings == {t.version : t \in ToolVersions}

\* ctx.toolset as download() sees it: get_tool("zig")/current_version()
\* fail, or report no current version, or report a version.
ZigLookupError  == "lookup-error"
ZigNotInstalled == "not-installed"
ZigStates == {ZigLookupError, ZigNotInstalled, "0.13.0"}

\* The calls considered: every request with zig absent or installed, the
\* pseudo-version also with a failing toolset lookup.
Inputs ==
    { <<t, zig>> \in ToolVersions \X ZigStates :
        zig = ZigLookupError => t.version = "ref:zig" }

\* Variant: the contract lets sub-version requests through.
requires_with_sub(t) == t.request \in {"Version", "Prefix", "Ref", "Sub"}

\* #[requires(matches!(tv.request, Version | Prefix | Ref))], zls.rs 175
requires(t) == t.request \in {"Version", "Prefix", "Ref"}

\* Variant: the pseudo-version is not special-cased.
resolve_literal(t, zig) == Ok(t.version)

\* Variant: a missing zig falls back to the literal version string.
resolve_fallback(t, zig) ==
    IF t.version = "ref:zig" /\ zig \notin {ZigLookupError, ZigNotInstalled}
    THEN Ok(zig)
    ELSE Ok(t.version)

\* zls_version, zls.rs 61-72
resolve(t, zig) ==
    IF t.version = "ref:zig"
    THEN IF zig = ZigLookupError THEN Err("toolset: cannot get zig")
         ELSE IF zig = ZigNotInstalled THEN Err("Zig is not installed")
         ELSE Ok(zig)
    ELSE Ok(t.version)

\* strip_components of the TarOptions, zls.rs 98
STRIP_COMPONENTS == 1

\* What the installed binary may print for `zls version`: a list of lines,
\* each a list of pieces of text, " " being white space.
Stdouts ==
    { << >>,
      << <<"0.14.0">> >>,
      << <<" ", "0.13.0", " ">>, <<"0.14.0">> >>,
      << <<" ">>, <<"0.14.0">> >> }

\* str::trim
RECURSIVE trim(_)
trim(line) ==
    IF line = << >> THEN << >>
    ELSE IF line[1] = " " THEN trim(Tail(line))
    ELSE IF line[Len(line)] = " " THEN trim(SubSeq(line, 1, Len(line) - 1))
    ELSE line

\* to_string of the pieces
RECURSIVE to_string(_)
to_string(line) == IF line = << >> THEN "" ELSE line[1] \o to_string(Tail(line))

\* bin_version, zls.rs 50-55: lines().next().unwrap_or("").trim().to_string()
bin_version(out) == to_string(trim(IF out = << >> THEN << >> ELSE out[1]))

NoInstall == [tarball |-> NoValue, tree |-> Absent]

\* How many calls of install_version_ a behaviour makes.
MaxAttempts == 3

-----------------------------------------------------------------------------
(* The install attempt *)

Call(op, arg, ok) == [op |-> op, arg |-> arg, ok |-> ok]

\* `?` on an Err: install_version_ returns the error.
Fail(m) ==
    /\ pc' = "returned"
    /\ result' = Err(m)

InstallIdle ==
    /\ pc = "idle"
    /\ tv = NoTv
    /\ ctx = ZigNotInstalled
    /\ zls_version = NoValue
    /\ version_json = NoResponse
    /\ url = NoValue
    /\ tarball_data = NoValue
    /\ sig = NoSig
    /\ staged = [v \in VersionStrings |-> NoValue]
    /\ dir = [v \in VersionStrings |-> Absent]
    /\ trace = << >>
    /\ result = NoResult
    /\ probe = NoValue
    /\ stdout = << >>
    /\ pr = NoValue
    /\ lastOk = [v \in VersionStrings |-> NoInstall]
    /\ prevOk = NoInstall
    /\ dir0 = dir
    /\ attempts = 0

InstallInit ==
    /\ host \in Hosts
    /\ InstallIdle

\* The caller invokes install_version_(ctx, tv); the contract on the request
\* shape is checked on entry (zls.rs 175-176).
InstallVersion ==
    /\ pc \in {"idle", "returned", "panicked"}
    /\ attempts < MaxAttempts
    /\ attempts' = attempts + 1
    /\ dir0' = dir
    /\ \E in \in Inputs :
          /\ tv' = in[1]
          /\ ctx' = in[2]
          /\ prevOk' = lastOk[in[1].version]
          /\ IF requires(in[1])
             THEN pc' = "download" /\ result' = NoResult
             ELSE pc' = "panicked" /\ result' = Panic
    /\ zls_version' = NoValue
    /\ version_json' = NoResponse
    /\ url' = NoValue
    /\ tarball_data' = NoValue
    /\ sig' = NoSig
    /\ trace' = << >>
    /\ probe' = NoValue
    /\ stdout' = << >>
    /\ pr' = NoValue
    /\ UNCHANGED <<host, staged, dir, lastOk, catalogVars, platformVars, deactivateVars>>

\* download(), zls.rs 61-72: the version to ask the selector for.
Resolve ==
    /\ pc = "download"
    /\ LET r == resolve(tv, ctx) IN
         /\ trace' = Append(trace, Call("resolve", tv.version, r.ok))
         /\ IF r.ok
            THEN /\ zls_version' = r.v
                 /\ pc' = "fetch_url"
                 /\ UNCHANGED result
            ELSE /\ Fail(r.v)
                 /\ UNCHANGED zls_version
    /\ UNCHANGED <<host, tv, ctx, version_json, url, tarball_data, sig, staged, dir,
                   probe, stdout, lastOk, prevOk, dir0, attempts, pr,
                   catalogVars, platformVars, deactivateVars>>

\* fetch_url_from_zigtools, zls.rs 118-141: HTTP_FETCH.json fails, or
\* delivers a response that is then searched for the tarball URL.
FetchUrl ==
    /\ pc = "fetch_url"
    /\ \/ /\ trace' = Append(trace, Call("json", json_url(zls_version), FALSE))
          /\ Fail("http: select-version request failed")
          /\ UNCHANGED <<version_json, url>>
       \/ \E i \in 1..Len(Responses) :
            LET r == url_from_json(Responses[i], zls_version, host) IN
              /\ version_json' = i
              /\ trace' = Append(trace, Call("json", json_url(zls_version), r.ok))
              /\ IF r.ok
                 THEN /\ url' = r.v
                      /\ pc' = "download_file"
                      /\ UNCHANGED result
                 ELSE /\ Fail(r.v)
                      /\ UNCHANGED url
    /\ UNCHANGED <<host, tv, ctx, zls_version, tarball_data, sig, staged, dir,
                   probe, stdout, lastOk, prevOk, dir0, attempts, pr,
                   catalogVars, platformVars, deactivateVars>>

\* url.split('/').last().unwrap(), zls.rs 76, for the URLs the selector
\* responses carry; a text without '/' is its own last part.
filename(u) ==
    IF u = UrlA THEN "zls-0.14.0.tar.xz"
    ELSE IF u = UrlB THEN "zls-0.13.0.tar.xz"
    ELSE u

\* Variant: a failed download is tried a second time.
DownloadFile_RetriedOnce ==
    /\ pc = "download_file"
    /\ pr' = "download " \o filename(url)
    /\ \/ /\ trace' = Append(trace, Call("download_file", url, FALSE))
          /\ IF trace # << >> /\ Last(trace).op = "download_file"
             THEN Fail("http: download failed")
             ELSE UNCHANGED <<pc, result>>
          /\ UNCHANGED staged
       \/ \E data \in TarballIds :
            /\ trace' = Append(trace, Call("download_file", url, TRUE))
            /\ staged' = [staged EXCEPT ![tv.version] = data]
            /\ pc' = "read"
            /\ UNCHANGED result
    /\ UNCHANGED <<host, tv, ctx, zls_version, version_json, url, tarball_data, sig,
                   dir, probe, stdout, lastOk, prevOk, dir0, attempts, catalogVars, platformVars, deactivateVars>>

\* HTTP.download_file(&url, &tarball_path), zls.rs 76-80
DownloadFile ==
    /\ pc = "download_file"
    /\ pr' = "download " \o filename(url)
    /\ \/ /\ trace' = Append(trace, Call("download_file", url, FALSE))
          /\ Fail("http: download failed")
          /\ UNCHANGED staged
       \/ \E data \in TarballIds :
            /\ trace' = Append(trace, Call("download_file", url, TRUE))
            /\ staged' = [staged EXCEPT ![tv.version] = data]
            /\ pc' = "read"
            /\ UNCHANGED result
    /\ UNCHANGED <<host, tv, ctx, zls_version, version_json, url, tarball_data, sig,
                   dir, probe, stdout, lastOk, prevOk, dir0, attempts,
                   catalogVars, platformVars, deactivateVars>>

\* ctx.pr.set_message("minisign ..") and file::read(&tarball_path), zls.rs 82-83
ReadTarball ==
    /\ pc = "read"
    /\ pr' = "minisign " \o filename(url)
    /\ \/ /\ trace' = Append(trace, Call("read", url, FALSE))
          /\ Fail("io: cannot read tarball")
          /\ UNCHANGED tarball_data
       \/ /\ trace' = Append(trace, Call("read", url, TRUE))
          /\ tarball_data' = staged[tv.version]
          /\ pc' = "get_text"
          /\ UNCHANGED result
    /\ UNCHANGED <<host, tv, ctx, zls_version, version_json, url, sig, staged, dir,
                   probe, stdout, lastOk, prevOk, dir0, attempts,
                   catalogVars, platformVars, deactivateVars>>

\* HTTP.get_text(format!("{url}.minisig")), zls.rs 84
GetSignature ==
    /\ pc = "get_text"
    /\ \/ /\ trace' = Append(trace, Call("get_text", url \o ".minisig", FALSE))
          /\ Fail("http: signature request failed")
          /\ UNCHANGED sig
       \/ \E s \in Signatures :
            /\ trace' = Append(trace, Call("get_text", url \o ".minisig", TRUE))
            /\ sig' = s
            /\ pc' = "minisign"
            /\ UNCHANGED result
    /\ UNCHANGED <<host, tv, ctx, zls_version, version_json, url, tarball_data, staged,
                   dir, probe, stdout, lastOk, prevOk, dir0, attempts, pr,
                   catalogVars, platformVars, deactivateVars>>

\* Variant: the result of minisign::verify is dropped instead of propagated.
MinisignVerify_Ignored ==
    /\ pc = "minisign"
    /\ trace' = Append(trace, Call("minisign", url,
                                   minisign_verify(MINISIGN_KEY, tarball_data, sig)))
    /\ pc' = "remove_all"
    /\ UNCHANGED <<host, tv, ctx, zls_version, version_json, url, tarball_data, sig,
                   staged, dir, result, probe, stdout, lastOk, prevOk, dir0, attempts, pr,
                   catalogVars, platformVars, deactivateVars>>

\* minisign::verify(MINISIGN_KEY, &tarball_data, &sig)?, zls.rs 85-87, and
\* the return of download() into install_version_ (zls.rs 177).
MinisignVerify ==
    /\ pc = "minisign"
    /\ LET good == minisign_verify(MINISIGN_KEY, tarball_data, sig) IN
         /\ trace' = Append(trace, Call("minisign", url, good))
         /\ IF good
            THEN pc' = "remove_all" /\ UNCHANGED result
            ELSE Fail("minisign: signature verification failed")
    /\ UNCHANGED <<host, tv, ctx, zls_version, version_json, url, tarball_data, sig,
                   staged, dir, probe, stdout, lastOk, prevOk, dir0, attempts, pr,
                   catalogVars, platformVars, deactivateVars>>

\* Variant: install() removes the directory that holds every version's install.
RemoveAll_Parent ==
    /\ pc = "remove_all"
    /\ pr' = "extract " \o filename(url)
    /\ \/ /\ trace' = Append(trace, Call("remove_all", tv.version, FALSE))
          /\ Fail("io: cannot remove install directory")
          /\ UNCHANGED dir
       \/ /\ trace' = Append(trace, Call("remove_all", tv.version, TRUE))
          /\ dir' = [v \in VersionStrings |-> remove_all(dir[v])]
          /\ pc' = "untar"
          /\ UNCHANGED result
    /\ UNCHANGED <<host, tv, ctx, zls_version, version_json, url, tarball_data, sig,
                   staged, probe, stdout, lastOk, prevOk, dir0, attempts,
                   catalogVars, platformVars, deactivateVars>>

\* Variant: a failure of file::remove_all is dropped and install() goes on.
RemoveAll_ErrorIgnored ==
    /\ pc = "remove_all"
    /\ pr' = "extract " \o filename(url)
    /\ \/ /\ trace' = Append(trace, Call("remove_all", tv.version, FALSE))
          /\ UNCHANGED dir
       \/ /\ trace' = Append(trace, Call("remove_all", tv.version, TRUE))
          /\ dir' = [dir EXCEPT ![tv.version] = remove_all(@)]
    /\ pc' = "untar"
    /\ UNCHANGED <<host, tv, ctx, zls_version, version_json, url, tarball_data, sig,
                   staged, result, probe, stdout, lastOk, prevOk, dir0, attempts,
                   catalogVars, platformVars, deactivateVars>>

\* Variant: install() extracts over whatever the directory holds.
RemoveAll_Skipped ==
    /\ pc = "remove_all"
    /\ pc' = "untar"
    /\ UNCHANGED <<host, tv, ctx, zls_version, version_json, url, tarball_data, sig,
                   staged, dir, trace, result, probe, stdout, lastOk, prevOk, dir0, attempts, pr,
                   catalogVars, platformVars, deactivateVars>>

\* ctx.pr.set_message("extract ..") and file::remove_all(tv.install_path())?,
\* zls.rs 91-93
RemoveAll ==
    /\ pc = "remove_all"
    /\ pr' = "extract " \o filename(url)
    /\ \/ /\ trace' = Append(trace, Call("remove_all", tv.version, FALSE))
          /\ Fail("io: cannot remove install directory")
          /\ UNCHANGED dir
       \/ /\ trace' = Append(trace, Call("remove_all", tv.version, TRUE))
          /\ dir' = [dir EXCEPT ![tv.version] = remove_all(@)]
          /\ pc' = "untar"
          /\ UNCHANGED result
    /\ UNCHANGED <<host, tv, ctx, zls_version, version_json, url, tarball_data, sig,
                   staged, probe, stdout, lastOk, prevOk, dir0, attempts,
                   catalogVars, platformVars, deactivateVars>>

\* file::untar(tarball_path, &tv.install_path(), strip_components: 1)?,
\* zls.rs 94-102: fails before writing anything, fails after k entries, or
\* extracts every entry.
Untar ==
    /\ pc = "untar"
    /\ LET entries == Tarball(staged[tv.version], host) IN
         \/ /\ trace' = Append(trace, Call("untar", tv.version, FALSE))
            /\ Fail("io: cannot open tarball")
            /\ UNCHANGED dir
         \/ \E k \in 0..(Len(entries) - 1) :
              /\ trace' = Append(trace, Call("untar", tv.version, FALSE))
              /\ dir' = [dir EXCEPT ![tv.version] = untar(@, entries, k, STRIP_COMPONENTS)]
              /\ Fail("io: extraction failed")
         \/ /\ trace' = Append(trace, Call("untar", tv.version, TRUE))
            /\ dir' = [dir EXCEPT ![tv.version] =
                          untar(@, entries, Len(entries), STRIP_COMPONENTS)]
            /\ pc' = IF host.unix THEN "create_dir_all" ELSE "verify"
            /\ UNCHANGED result
    /\ UNCHANGED <<host, tv, ctx, zls_version, version_json, url, tarball_data, sig,
                   staged, probe, stdout, lastOk, prevOk, dir0, attempts, pr,
                   catalogVars, platformVars, deactivateVars>>

\* if cfg!(unix) { file::create_dir_all(install_path/bin)? ..., zls.rs 104-105
CreateBinDir ==
    /\ pc = "create_dir_all"
    /\ \/ /\ trace' = Append(trace, Call("create_dir_all", tv.version, FALSE))
          /\ Fail("io: cannot create bin directory")
          /\ UNCHANGED dir
       \/ /\ trace' = Append(trace, Call("create_dir_all", tv.version, TRUE))
          /\ dir' = [dir EXCEPT ![tv.version] = create_dir_all(@)]
          /\ pc' = "make_symlink"
          /\ UNCHANGED result
    /\ UNCHANGED <<host, tv, ctx, zls_version, version_json, url, tarball_data, sig,
                   staged, probe, stdout, lastOk, prevOk, dir0, attempts, pr,
                   catalogVars, platformVars, deactivateVars>>

\* Variant: a failure of file::make_symlink is dropped and install() returns Ok.
MakeSymlink_ErrorIgnored ==
    /\ pc = "make_symlink"
    /\ \/ /\ trace' = Append(trace, Call("make_symlink", tv.version, FALSE))
          /\ UNCHANGED dir
       \/ /\ trace' = Append(trace, Call("make_symlink", tv.version, TRUE))
          /\ dir' = [dir EXCEPT ![tv.version] = make_symlink(@)]
    /\ pc' = "verify"
    /\ UNCHANGED <<host, tv, ctx, zls_version, version_json, url, tarball_data, sig,
                   staged, result, probe, stdout, lastOk, prevOk, dir0, attempts, pr,
                   catalogVars, platformVars, deactivateVars>>

\* ... file::make_symlink("../zls", install_path/bin/zls)? }, zls.rs 106-110
MakeSymlink ==
    /\ pc = "make_symlink"
    /\ \/ /\ trace' = Append(trace, Call("make_symlink", tv.version, FALSE))
          /\ Fail("io: cannot create symlink")
          /\ UNCHANGED dir
       \/ /\ trace' = Append(trace, Call("make_symlink", tv.version, TRUE))
          /\ dir' = [dir EXCEPT ![tv.version] = make_symlink(@)]
          /\ pc' = "verify"
          /\ UNCHANGED result
    /\ UNCHANGED <<host, tv, ctx, zls_version, version_json, url, tarball_data, sig,
                   staged, probe, stdout, lastOk, prevOk, dir0, attempts, pr,
                   catalogVars, platformVars, deactivateVars>>

\* Variant: install_version_ returns Ok(tv) right after install().
Verify_Skipped ==
    /\ pc = "verify"
    /\ pc' = "returned"
    /\ result' = Ok(tv.version)
    /\ lastOk' = [lastOk EXCEPT ![tv.version] =
                     [tarball |-> staged[tv.version], tree |-> dir[tv.version]]]
    /\ UNCHANGED <<host, tv, ctx, zls_version, version_json, url, tarball_data, sig,
                   staged, dir, trace, probe, stdout, prevOk, dir0, attempts, pr,
                   catalogVars, platformVars, deactivateVars>>

\* Variant: verify() fails when the reported version is not the requested one.
Verify_CrossChecked ==
    /\ pc = "verify"
    /\ \/ /\ trace' = Append(trace, Call("version", tv.version, FALSE))
          /\ Fail("cmd: cannot execute zls")
          /\ pr' = "zls version"
          /\ UNCHANGED <<probe, stdout, lastOk>>
       \/ /\ bin_path_runs(dir[tv.version], host)
          /\ \E out \in Stdouts :
               /\ trace' = Append(trace, Call("version", tv.version, TRUE))
               /\ stdout' = out
               /\ probe' = bin_version(out)
               /\ IF bin_version(out) = tv.version
                  THEN /\ pr' = "verified zls " \o bin_version(out)
                       /\ pc' = "returned"
                       /\ result' = Ok(tv.version)
                       /\ lastOk' = [lastOk EXCEPT ![tv.version] =
                                        [tarball |-> staged[tv.version],
                                         tree |-> dir[tv.version]]]
                  ELSE /\ pr' = "zls version"
                       /\ Fail("zls reports another version")
                       /\ UNCHANGED lastOk
    /\ UNCHANGED <<host, tv, ctx, zls_version, version_json, url, tarball_data, sig,
                   staged, dir, prevOk, dir0, attempts, catalogVars, platformVars, deactivateVars>>

\* verify() and bin_version(), zls.rs 42-58 and 112-116, then Ok(tv),
\* zls.rs 179-180: the binary cannot be executed, or prints a first line.
Verify ==
    /\ pc = "verify"
    /\ \/ /\ trace' = Append(trace, Call("version", tv.version, FALSE))
          /\ Fail("cmd: cannot execute zls")
          /\ pr' = "zls version"
          /\ UNCHANGED <<probe, stdout, lastOk>>
       \/ /\ bin_path_runs(dir[tv.version], host)
          /\ \E out \in Stdouts :
               /\ trace' = Append(trace, Call("version", tv.version, TRUE))
               /\ stdout' = out
               /\ probe' = bin_version(out)
               /\ pr' = "verified zls " \o bin_version(out)
               /\ pc' = "returned"
               /\ result' = Ok(tv.version)
               /\ lastOk' = [lastOk EXCEPT ![tv.version] =
                                [tarball |-> staged[tv.version], tree |-> dir[tv.version]]]
    /\ UNCHANGED <<host, tv, ctx, zls_version, version_json, url, tarball_data, sig,
                   staged, dir, prevOk, dir0, attempts,
                   catalogVars, platformVars, deactivateVars>>

-----------------------------------------------------------------------------
(* The install pipeline as a system *)

Init ==
    /\ InstallInit
    /\ tags = << >>
    /\ versions = CatalogNotCalled
    /\ platform_key = NoValue
    /\ DeactivateIdle

Next ==
    \/ InstallVersion
    \/ Resolve
    \/ FetchUrl
    \/ DownloadFile
    \/ ReadTarball
    \/ GetSignature
    \/ MinisignVerify
    \/ RemoveAll
    \/ Untar
    \/ CreateBinDir
    \/ MakeSymlink
    \/ Verify

Spec == Init /\ [][Next]_vars

-----------------------------------------------------------------------------
(* list_remote_versions, zls.rs 149-161 *)

\* Tag names are sequences of byte values, so that their lexical order (the
\* order of Rust's String) can be computed.
TagNames ==
    { <<48, 46, 57, 46, 48>>,                \* "0.9.0"
      <<48, 46, 49, 48, 46, 48>>,            \* "0.10.0"
      <<48, 46, 49, 48, 46, 48, 43, 98>>,    \* "0.10.0+b"
      <<48, 46, 57>>,                        \* "0.9"
      <<122, 108, 115>> }                    \* "zls"

REF_ZIG == <<114, 101, 102, 58, 122, 105, 103>>   \* "ref:zig"

\* How many releases the listing holds.
MaxTags == 4

TagLists == UNION {[1..n -> TagNames] : n \in 0..MaxTags}

\* Lexicographic comparison of two sequences of numbers: -1, 0 or 1.
RECURSIVE SeqCmp(_, _)
SeqCmp(a, b) ==
    IF a = << >> /\ b = << >> THEN 0
    ELSE IF a = << >> THEN -1
    ELSE IF b = << >> THEN 1
    ELSE IF a[1] < b[1] THEN -1
    ELSE IF a[1] > b[1] THEN 1
    ELSE SeqCmp(Tail(a), Tail(b))

\* The text before the build metadata ("+...").
CutMeta(t) ==
    LET plus == {i \in 1..Len(t) : t[i] = 43} IN
      IF plus = {} THEN t
      ELSE SubSeq(t, 1, (CHOOSE i \in plus : \A j \in plus : i <= j) - 1)

\* The chunks between the dots.
RECURSIVE Chunks(_)
Chunks(t) ==
    LET dots == {i \in 1..Len(t) : t[i] = 46} IN
      IF dots = {} THEN << t >>
      ELSE LET d == CHOOSE i \in dots : \A j \in dots : i <= j IN
             << SubSeq(t, 1, d - 1) >> \o Chunks(SubSeq(t, d + 1, Len(t)))

IsDigits(c) == c # << >> /\ \A i \in 1..Len(c) : c[i] \in 48..57

RECURSIVE Num(_)
Num(c) == IF c = << >> THEN 0 ELSE 10 * Num(SubSeq(c, 1, Len(c) - 1)) + (c[Len(c)] - 48)

\* versions::Versioning::new(s): None for a tag that is no dotted number,
\* else the numbers; build metadata does not take part in the comparison.
Versioning(t) ==
    LET cs == Chunks(CutMeta(t)) IN
      IF \A i \in 1..Len(cs) : IsDigits(cs[i])
      THEN [some |-> TRUE,  nums |-> [i \in 1..Len(cs) |-> Num(cs[i])]]
      ELSE [some |-> FALSE, nums |-> << >>]

\* Ord of Option<Versioning>: None first.
VersioningCmp(x, y) ==
    IF x.some # y.some THEN (IF y.some THEN -1 ELSE 1)
    ELSE SeqCmp(x.nums, y.nums)

\* Variant: the tags are sorted as plain strings.
KeyCmp_string_only(a, b) == SeqCmp(a, b)

\* Ord of the sort key (Versioning::new(s), s.to_string()), zls.rs 154
KeyCmp(a, b) ==
    LET c == VersioningCmp(Versioning(a), Versioning(b)) IN
      IF c # 0 THEN c ELSE SeqCmp(a, b)

\* Itertools::unique: the first occurrence of each element, in order
RECURSIVE unique(_)
unique(ts) ==
    IF ts = << >> THEN << >>
    ELSE LET u == unique(SubSeq(ts, 1, Len(ts) - 1)) IN
           IF Last(ts) \in Range(u) THEN u ELSE Append(u, Last(ts))

\* Itertools::sorted_by_cached_key: a stable sort, by insertion
RECURSIVE sorted_by_cached_key(_)
sorted_by_cached_key(ts) ==
    IF ts = << >> THEN << >>
    ELSE LET front == sorted_by_cached_key(SubSeq(ts, 1, Len(ts) - 1))
             x     == Last(ts)
             k     == Cardinality({i \in 1..Len(front) : KeyCmp(front[i], x) <= 0})
         IN  SubSeq(front, 1, k) \o << x >> \o SubSeq(front, k + 1, Len(front))

\* The body of list_remote_versions once the releases have arrived.
list_remote_versions(ts) == Append(sorted_by_cached_key(unique(ts)), REF_ZIG)

\* list_remote_versions(): github::list_releases fails and the error is
\* returned, or the list is built from the tag names.
ListRemoteVersions ==
    /\ \/ versions' = Err("github: cannot list releases")
       \/ versions' = Ok(list_remote_versions(tags))
    /\ UNCHANGED <<tags, installVars, platformVars, deactivateVars>>

\* The releases published upstream, before the first call.
CatalogInit ==
    /\ InstallInit
    /\ tags \in TagLists
    /\ versions = CatalogNotCalled
    /\ platform_key = NoValue
    /\ DeactivateIdle

CatalogNext == ListRemoteVersions

SpecCatalog == CatalogInit /\ [][CatalogNext]_vars

-----------------------------------------------------------------------------
(* The platform key on its own: os(), arch() and the format! of zls.rs 130 *)

\* let os_key = format!("{}-{}", os(), arch()), zls.rs 130
FormatOsKey ==
    /\ platform_key = NoValue
    /\ platform_key' = os_key(host)
    /\ UNCHANGED <<installVars, catalogVars, deactivateVars>>

PlatformInit ==
    /\ host \in Platforms
    /\ InstallIdle
    /\ tags = << >>
    /\ versions = CatalogNotCalled
    /\ platform_key = NoValue
    /\ DeactivateIdle

PlatformNext == FormatOsKey

SpecPlatform == PlatformInit /\ [][PlatformNext]_vars

-----------------------------------------------------------------------------
(* Deactivate::run, cli/deactivate.rs 16-28 *)

Shells == {"bash", "zsh", "fish", "nu", "xonsh", "elvish", "pwsh"}

\* The variables a session can have recorded as changed by mise.
OldEnvs == { << >>, <<"PATH">>, <<"PATH", "FOO">> }

\* err_inactive(), deactivate.rs 31-39 (the message without its styling)
err_inactive ==
    Err("mise is not activated in this shell session. Please run mise activate first in your shell rc file.")

NoShellDetected == [ok |-> FALSE, v |-> "panic: no shell detected"]

\* hook_env::clear_old_env(&*shell): the text that undoes the recorded changes.
clear_old_env(sh, old) == [text |-> "clear_old_env", shell |-> sh, env |-> old]

\* shell.deactivate(): the deactivation script of that shell.
deactivate(sh) == [text |-> "deactivate", shell |-> sh]

RunCall(op, arg) == [op |-> op, arg |-> arg]

RunFail(m) ==
    /\ run_pc' = "returned"
    /\ run_result' = Err(m)

\* Variant: the result of err_inactive() is dropped and run goes on.
Run_IsActivated_NoReturn ==
    /\ run_pc = "is_activated"
    /\ run_trace' = Append(run_trace, RunCall("is_activated", activated))
    /\ run_pc' = "get_shell"
    /\ UNCHANGED <<run_result, activated, shell_in_env, old_env, installVars,
                   catalogVars, platformVars>>

\* if !env::is_activated() { err_inactive()?; }, deactivate.rs 17-19
Run_IsActivated ==
    /\ run_pc = "is_activated"
    /\ run_trace' = Append(run_trace, RunCall("is_activated", activated))
    /\ IF ~activated
       THEN /\ run_pc' = "returned"
            /\ run_result' = err_inactive
       ELSE /\ run_pc' = "get_shell"
            /\ UNCHANGED run_result
    /\ UNCHANGED <<activated, shell_in_env, old_env, installVars, catalogVars,
                   platformVars>>

\* let shell = get_shell(None).expect("no shell detected"), deactivate.rs 21
Run_GetShell ==
    /\ run_pc = "get_shell"
    /\ run_trace' = Append(run_trace, RunCall("get_shell", shell_in_env))
    /\ IF shell_in_env = NoValue
       THEN /\ run_pc' = "panicked"
            /\ run_result' = NoShellDetected
       ELSE /\ run_pc' = "clear_old_env"
            /\ UNCHANGED run_result
    /\ UNCHANGED <<activated, shell_in_env, old_env, installVars, catalogVars,
                   platformVars>>

\* miseprint!("{}", hook_env::clear_old_env(&*shell))?, deactivate.rs 23
Run_ClearOldEnv ==
    /\ run_pc = "clear_old_env"
    /\ \/ /\ run_trace' = Append(run_trace,
                                RunCall("print", clear_old_env(shell_in_env, old_env)))
          /\ run_pc' = "deactivate"
          /\ UNCHANGED run_result
       \/ /\ run_trace' = Append(run_trace, RunCall("print failed", "clear_old_env"))
          /\ RunFail("io: cannot write to stdout")
    /\ UNCHANGED <<activated, shell_in_env, old_env, installVars, catalogVars,
                   platformVars>>

\* let output = shell.deactivate(); miseprint!("{output}")?; Ok(()),
\* deactivate.rs 24-27
Run_Deactivate ==
    /\ run_pc = "deactivate"
    /\ \/ /\ run_trace' = Append(run_trace, RunCall("print", deactivate(shell_in_env)))
          /\ run_pc' = "returned"
          /\ run_result' = Ok("()")
       \/ /\ run_trace' = Append(run_trace, RunCall("print failed", "deactivate"))
          /\ RunFail("io: cannot write to stdout")
    /\ UNCHANGED <<activated, shell_in_env, old_env, installVars, catalogVars,
                   platformVars>>

\* The command is invoked in some shell session.
Run ==
    /\ run_pc = "idle"
    /\ run_pc' = "is_activated"
    /\ run_result' = NoResult
    /\ UNCHANGED <<activated, shell_in_env, old_env, run_trace, installVars,
                   catalogVars, platformVars>>

\* The sessions considered: a session that is not activated has recorded no
\* changes.
DeactivateInit ==
    /\ host = Target("linux", "x86_64")
    /\ InstallIdle
    /\ tags = << >>
    /\ versions = CatalogNotCalled
    /\ platform_key = NoValue
    /\ activated \in BOOLEAN
    /\ shell_in_env \in Shells \cup {NoValue}
    /\ old_env \in OldEnvs
    /\ ~activated => old_env = << >>
    /\ run_pc = "idle"
    /\ run_trace = << >>
    /\ run_result = RunNotCalled

DeactivateNext ==
    \/ Run
    \/ Run_IsActivated
    \/ Run_GetShell
    \/ Run_ClearOldEnv
    \/ Run_Deactivate

SpecDeactivate == DeactivateInit /\ [][DeactivateNext]_vars

-----------------------------------------------------------------------------
(* Vocabulary of the properties *)

Ops == {trace[i].op : i \in 1..Len(trace)}

Count(op) == Cardinality({i \in 1..Len(trace) : trace[i].op = op})

HttpOps == {"json", "download_file", "get_text"}

DirOps == {"remove_all", "untar", "create_dir_all", "make_symlink"}

Finished == pc \in {"returned", "panicked"}

SignatureRejected == \E i \in 1..Len(trace) : trace[i].op = "minisign" /\ ~trace[i].ok

\* The tree a complete install of archive id leaves on host h.
Layout(id, h) ==
    [exists |-> TRUE,
     files  |-> { Entry(Strip(e.path, 1), e.data) :
                     e \in {x \in Range(Tarball(id, h)) : Len(x.path) > 1} }
                \cup (IF h.unix THEN {BinDir, Symlink} ELSE {})]

-----------------------------------------------------------------------------
(* C1: fail-closed signature check.  Every removal, extraction, directory   *)
(* or symlink creation of an attempt comes after a successful minisign      *)
(* verification in the same attempt; an attempt whose verification failed   *)
(* has ended with an error right there and has left every install           *)
(* directory as it found it; no byte of the tampered archive is ever under  *)
(* an install directory.                                                    *)
C1_FailClosed ==
    /\ \A i \in 1..Len(trace) :
         trace[i].op \in DirOps =>
            \E j \in 1..(i - 1) : trace[j].op = "minisign" /\ trace[j].ok
    /\ SignatureRejected =>
         /\ pc = "returned"
         /\ ~result.ok
         /\ trace[Len(trace)].op = "minisign"
         /\ Ops \cap DirOps = {}
         /\ dir = dir0
    /\ \A v \in VersionStrings : \A f \in dir[v].files : f.data # "X:zls"

\* A tampered download over the publisher's signature of archive A has been
\* rejected while an earlier install was in place.
C1_Witness ==
    /\ SignatureRejected
    /\ tarball_data = "X"
    /\ sig = [key |-> MINISIGN_KEY, of |-> "A"]
    /\ dir0[tv.version].exists

-----------------------------------------------------------------------------
-----------------------------------------------------------------------------
\* The response is no error envelope and has no string-valued tarball for
\* the platform key.
LacksBuild(j, key) ==
    /\ "code" \notin DOMAIN j.v
    /\ \/ key \notin DOMAIN j.v
       \/ j.v[key].t # "obj"
       \/ "tarball" \notin DOMAIN j.v[key].v
       \/ j.v[key].v["tarball"].t # "str"

(* C3: when the selector response is no error envelope and has no entry    *)
(* with a string tarball for the host's platform key, the attempt has      *)
(* failed with the no-compatible-build error naming the queried version    *)
(* and the platform key, no tarball or signature request was issued, and   *)
(* every install directory is as it was when the attempt began.            *)
C3_UnsupportedPlatform ==
    (version_json # NoResponse /\ LacksBuild(Responses[version_json], os_key(host))) =>
        /\ pc = "returned"
        /\ result = Err("No compatible ZLS build found for " \o zls_version
                          \o " on " \o os(host) \o "-" \o arch(host))
        /\ Ops \cap {"download_file", "get_text"} = {}
        /\ Ops \cap DirOps = {}
        /\ dir = dir0
        /\ url = NoValue

\* The platform has an entry whose tarball is not a string, and an earlier
\* install stands in the directory.
C3_Witness ==
    /\ version_json = 6
    /\ os_key(host) = "linux-x86_64"
    /\ pc = "returned"
    /\ dir[tv.version].exists

-----------------------------------------------------------------------------
(* C4: an attempt for ref:zig whose toolset reports no current zig has     *)
(* issued no HTTP request and touched no install directory, and once the   *)
(* resolution step has run it has failed with "Zig is not installed".      *)
C4_DependencyMissing ==
    (tv.version = "ref:zig" /\ ctx = ZigNotInstalled) =>
        /\ Ops \cap HttpOps = {}
        /\ Ops \cap DirOps = {}
        /\ dir = dir0
        /\ \/ pc = "download" /\ trace = << >>
           \/ /\ pc = "returned"
              /\ result = Err("Zig is not installed")
              /\ trace = << Call("resolve", "ref:zig", FALSE) >>

\* The dependency was missing while an earlier ref:zig install was in place.
C4_Witness ==
    /\ tv.version = "ref:zig"
    /\ ctx = ZigNotInstalled
    /\ pc = "returned"
    /\ dir["ref:zig"].exists

-----------------------------------------------------------------------------
(* C5: an attempt runs only for a Version, Prefix or Ref request; for any  *)
(* other request the call has panicked on entry with no collaborator       *)
(* called and every install directory as it was.                           *)
C5_RequestShape ==
    /\ pc \notin {"idle", "panicked"} => tv.request \in {"Version", "Prefix", "Ref"}
    /\ (tv # NoTv /\ tv.request \notin {"Version", "Prefix", "Ref"}) =>
          /\ pc = "panicked"
          /\ result = Panic
          /\ trace = << >>
          /\ dir = dir0
          /\ staged[tv.version] = NoValue

\* A sub-version request was rejected after an earlier attempt had run.
C5_Witness ==
    /\ pc = "panicked"
    /\ tv.request = "Sub"
    /\ attempts > 1

-----------------------------------------------------------------------------
\* The version the request stands for: zig's for the pseudo-version, the
\* literal version string otherwise.
ExpectedVersion == IF tv.version = "ref:zig" THEN ctx ELSE tv.version

ResolutionSucceeded == trace # << >> /\ trace[1].op = "resolve" /\ trace[1].ok

(* C6 as stated: every attempt that ran issues exactly one selector query, *)
(* for the version the request stands for and compatibility=only-runtime.  *)
C6_ExactlyOneQuery ==
    pc = "returned" =>
        /\ Count("json") = 1
        /\ \A i \in 1..Len(trace) :
              trace[i].op = "json" =>
                 trace[i].arg =
                    "https://releases.zigtools.org/v1/zls/select-version?zig_version="
                       \o ExpectedVersion \o "&compatibility=only-runtime"

(* C6, amended: an attempt issues at most one selector query, and exactly  *)
(* one once its version resolution has succeeded; the query carries        *)
(* zig_version = zig's installed version for ref:zig and the literal       *)
(* version string for every other request, and compatibility=only-runtime. *)
(* An attempt whose resolution fails, or that is rejected on entry, issues *)
(* none.                                                                   *)
C6_SelectorQuery ==
    /\ Count("json") <= 1
    /\ \A i \in 1..Len(trace) :
          trace[i].op = "json" =>
             /\ ExpectedVersion \notin {ZigLookupError, ZigNotInstalled}
             /\ trace[i].arg =
                   "https://releases.zigtools.org/v1/zls/select-version?zig_version="
                      \o ExpectedVersion \o "&compatibility=only-runtime"
    /\ (ResolutionSucceeded /\ pc # "fetch_url") => Count("json") = 1
    /\ ~ResolutionSucceeded => Count("json") = 0

\* The pseudo-version with zig installed at 0.13.0 has gone through the
\* selector and on to a successful install.
C6_Witness ==
    /\ tv.version = "ref:zig"
    /\ ctx = "0.13.0"
    /\ Count("json") = 1
    /\ pc = "returned"
    /\ result.ok

-----------------------------------------------------------------------------
\* The text of the error for envelope j.
EnvelopeText(j) ==
    "ZLS API error (code " \o ToString(j.v["code"].v) \o "): "
       \o (IF "message" \in DOMAIN j.v /\ j.v["message"].t = "str"
           THEN j.v["message"].v
           ELSE "Unknown error")

(* C7: when the selector response carries a "code" member, the attempt has *)
(* failed with the API error giving that code and the envelope's message   *)
(* ("Unknown error" when it has no string message); the platform entries   *)
(* of the response were not used, the query was issued once, nothing was   *)
(* downloaded and every install directory is as it was.                    *)
C7_ErrorEnvelope ==
    (version_json # NoResponse /\ "code" \in DOMAIN Responses[version_json].v) =>
        /\ pc = "returned"
        /\ result = Err(EnvelopeText(Responses[version_json]))
        /\ url = NoValue
        /\ Count("json") = 1
        /\ Ops \cap {"download_file", "get_text"} = {}
        /\ Ops \cap DirOps = {}
        /\ dir = dir0

\* An envelope that also carries an entry for the host's platform was
\* reported as code 404 with its message, over an existing install.
C7_Witness ==
    /\ version_json = 1
    /\ os_key(host) \in DOMAIN Responses[1].v
    /\ result = Err("ZLS API error (code 404): Version not found")
    /\ dir[tv.version].exists

-----------------------------------------------------------------------------
\* The collaborator calls of a complete attempt, in order.
Canonical(h) ==
    <<"resolve", "json", "download_file", "read", "get_text", "minisign",
      "remove_all", "untar">>
      \o (IF h.unix THEN <<"create_dir_all", "make_symlink">> ELSE << >>)
      \o <<"version">>

\* The call an attempt at position p is about to make.
PendingOp(p) ==
    CASE p = "download"       -> "resolve"
      [] p = "fetch_url"      -> "json"
      [] p = "download_file"  -> "download_file"
      [] p = "read"           -> "read"
      [] p = "get_text"       -> "get_text"
      [] p = "minisign"       -> "minisign"
      [] p = "remove_all"     -> "remove_all"
      [] p = "untar"          -> "untar"
      [] p = "create_dir_all" -> "create_dir_all"
      [] p = "make_symlink"   -> "make_symlink"
      [] p = "verify"         -> "version"

(* C8: the calls of an attempt are an initial part of the order resolve,   *)
(* selector query, tarball download, read-back, signature fetch, signature *)
(* verification, remove, extract, (unix: bin directory, symlink), binary   *)
(* probe; every call but the last one made has succeeded; a running        *)
(* attempt is about to make the next call of that order; a failed call is  *)
(* the last one and the attempt has returned its error; success is         *)
(* returned only with the whole order done, the probe included.            *)
C8_StrictOrder ==
    /\ Len(trace) <= Len(Canonical(host))
    /\ \A i \in 1..Len(trace) :
          /\ trace[i].op = Canonical(host)[i]
          /\ i < Len(trace) => trace[i].ok
    /\ pc \notin {"idle", "returned", "panicked"} =>
          /\ \A i \in 1..Len(trace) : trace[i].ok
          /\ PendingOp(pc) = Canonical(host)[Len(trace) + 1]
    /\ (trace # << >> /\ ~Last(trace).ok) => (pc = "returned" /\ ~result.ok)
    /\ (pc = "returned" /\ ~result.ok) => (trace # << >> /\ ~Last(trace).ok)
    /\ result.ok =>
          /\ pc = "returned"
          /\ Len(trace) = Len(Canonical(host))
          /\ Last(trace) = Call("version", tv.version, TRUE)

\* A complete attempt on unix: all eleven calls made, success returned.
C8_Witness ==
    /\ host.unix
    /\ pc = "returned"
    /\ result.ok
    /\ Len(trace) = 11

-----------------------------------------------------------------------------
(* C9 as stated: a successful install of a version that had been installed *)
(* successfully before leaves the directory with the contents the earlier  *)
(* install left.                                                           *)
C9_SameContentsAlways ==
    (pc = "returned" /\ result.ok /\ prevOk.tarball # NoValue) =>
        dir[tv.version] = prevOk.tree

(* C9, amended: a successful install of a version that had been installed  *)
(* successfully before, from the same tarball as that earlier install,     *)
(* leaves the directory with the contents the earlier install left,        *)
(* whatever happened to the directory in between.                          *)
C9_Idempotent ==
    (pc = "returned" /\ result.ok /\ prevOk.tarball = staged[tv.version]) =>
        dir[tv.version] = prevOk.tree

\* The second install of the same tarball found the directory changed by a
\* failed attempt in between, and restored the contents of the first.
C9_Witness ==
    /\ pc = "returned"
    /\ result.ok
    /\ prevOk.tarball = staged[tv.version]
    /\ dir0[tv.version] # prevOk.tree
    /\ dir[tv.version] = prevOk.tree

-----------------------------------------------------------------------------
\* Tag a comes before tag b: lower semantic rank (a tag without one ranks
\* lowest), or equal rank and a lexically before b.
Precedes(a, b) ==
    LET va == Versioning(a)
        vb == Versioning(b)
    IN  \/ ~va.some /\ vb.some
        \/ va.some /\ vb.some /\ SeqCmp(va.nums, vb.nums) = -1
        \/ va.some = vb.some /\ SeqCmp(va.nums, vb.nums) = 0 /\ SeqCmp(a, b) = -1

(* C10: the list returned holds every distinct published tag exactly once, *)
(* in strictly ascending order of semantic rank with equal ranks in        *)
(* lexical order of the tag, and then ref:zig as its last element and      *)
(* nowhere else; when the release listing fails an error is returned and   *)
(* no list.                                                                *)
C10_Catalog ==
    /\ versions.ok =>
         LET r == versions.v
             n == Len(r) - 1
         IN  /\ Len(r) = Cardinality(Range(tags)) + 1
             /\ {r[i] : i \in 1..n} = Range(tags)
             /\ \A i, j \in 1..n : i < j => Precedes(r[i], r[j])
             /\ r[Len(r)] = REF_ZIG
             /\ \A i \in 1..n : r[i] # REF_ZIG
    /\ ~versions.ok =>
         versions \in {CatalogNotCalled, Err("github: cannot list releases")}

\* A listing with a duplicate, with "0.10.0" published before "0.9.0", and
\* with two tags of equal rank, has been returned.
C10_Witness ==
    /\ versions.ok
    /\ Len(tags) = 4
    /\ Cardinality(Range(tags)) = 3
    /\ tags[1] = <<48, 46, 49, 48, 46, 48, 43, 98>>
    /\ tags[2] = <<48, 46, 49, 48, 46, 48>>
    /\ tags[3] = <<48, 46, 57, 46, 48>>
    /\ tags[4] = tags[1]
    /\ versions.v = << <<48, 46, 57, 46, 48>>, <<48, 46, 49, 48, 46, 48>>,
                       <<48, 46, 49, 48, 46, 48, 43, 98>>, REF_ZIG >>

-----------------------------------------------------------------------------
Extracted_Ok == \E i \in 1..Len(trace) : trace[i].op = "untar" /\ trace[i].ok

Probed_Ok == \E i \in 1..Len(trace) : trace[i] = Call("version", tv.version, TRUE)

\* The pieces of the first line of the output that are not white space,
\* put together (no line considered has white space between two pieces).
FirstLineText(out) ==
    IF out = << >> THEN ""
    ELSE to_string(SelectSeq(out[1], LAMBDA x : x # " "))

(* C11: an attempt that has extracted its archive and has returned has     *)
(* succeeded exactly when the installed binary was executed with           *)
(* "version"; a failed execution is returned as an error; after a          *)
(* successful one the first line of the output, trimmed, was given to the  *)
(* progress sink as "verified zls <line>", whether it is the requested     *)
(* version, another one, or empty.                                         *)
C11_ProbeDecides ==
    (pc = "returned" /\ Extracted_Ok) =>
        /\ result.ok <=> Probed_Ok
        /\ (Last(trace).op = "version" /\ ~Last(trace).ok) =>
              (result = Err("cmd: cannot execute zls") /\ pr = "zls version")
        /\ result.ok =>
              /\ probe = FirstLineText(stdout)
              /\ pr = "verified zls " \o probe

\* The binary printed " 0.13.0 " and a second line for a request of 0.14.0,
\* and the install succeeded reporting 0.13.0.
C11_Witness ==
    /\ pc = "returned"
    /\ result = Ok("0.14.0")
    /\ stdout = << <<" ", "0.13.0", " ">>, <<"0.14.0">> >>
    /\ probe = "0.13.0"
    /\ pr = "verified zls 0.13.0"

-----------------------------------------------------------------------------
OnceOps == {"json", "download_file", "get_text", "minisign", "untar", "version"}

(* C12: within one attempt the selector query, the tarball download, the   *)
(* signature fetch, the signature verification, the extraction and the     *)
(* binary probe are each made at most once, and a call that failed is the  *)
(* last call of its attempt, which has returned that failure.              *)
C12_NoRetries ==
    /\ \A op \in OnceOps : Count(op) <= 1
    /\ \A i \in 1..Len(trace) :
          ~trace[i].ok =>
             /\ i = Len(trace)
             /\ pc = "returned"
             /\ ~result.ok
             /\ result.v # NoResult.v

\* The signature of a downloaded tarball was rejected: six calls, each made
\* once, the rejection last.
C12_Witness ==
    /\ pc = "returned"
    /\ Len(trace) = 6
    /\ Last(trace) = Call("minisign", url, FALSE)
    /\ \A op \in {"json", "download_file", "get_text", "minisign"} : Count(op) = 1
    /\ result = Err("minisign: signature verification failed")

-----------------------------------------------------------------------------
Removed_Ok == \E i \in 1..Len(trace) : trace[i] = Call("remove_all", tv.version, TRUE)

(* C13: extraction starts on an absent directory, whatever the directory   *)
(* held when the attempt began: once the attempt's removal has succeeded   *)
(* every file in the directory is one the attempt wrote from its own       *)
(* tarball (or its bin directory and symlink), and after a successful      *)
(* attempt the directory holds exactly what the attempt produces on an     *)
(* absent directory.                                                       *)
C13_Recovery ==
    /\ pc = "untar" => (Removed_Ok /\ dir[tv.version] = Absent)
    /\ ("untar" \in Ops) => Removed_Ok
    /\ Removed_Ok =>
          dir[tv.version].files \subseteq Layout(staged[tv.version], host).files
    /\ (pc = "returned" /\ result.ok) =>
          /\ Removed_Ok
          /\ dir[tv.version].files = Layout(staged[tv.version], host).files

\* The attempt found a tree of archive A that was never completed (README
\* extracted, no launcher or no verified install) and installed archive B.
C13_Witness ==
    /\ pc = "returned"
    /\ result.ok
    /\ staged[tv.version] = "B"
    /\ Entry(<<"README.md">>, "A:readme") \in dir0[tv.version].files
    /\ prevOk.tarball # "A"
    /\ Entry(<<"README.md">>, "A:readme") \notin dir[tv.version].files

-----------------------------------------------------------------------------
InstallStepOps == {"untar", "create_dir_all", "make_symlink"}

InstallStepFailed ==
    \E i \in 1..Len(trace) : trace[i].op \in InstallStepOps /\ ~trace[i].ok

\* What install() has written when the step named op is the one that failed.
Written(op, id, h) ==
    LET full == Layout(id, h).files IN
      IF op = "make_symlink" THEN {full \ {Symlink}}
      ELSE IF op = "create_dir_all" THEN {full \ {BinDir, Symlink}}
      ELSE {fs \in SUBSET (full \ {BinDir, Symlink}) : fs # full \ {BinDir, Symlink}}

(* C14: when extraction, creation of the bin directory or creation of the  *)
(* launcher symlink fails, install_version_ returns that error, the        *)
(* version probe is never run, and the install directory holds what the    *)
(* attempt had written up to the failure on top of the removal: nothing    *)
(* of the directory's earlier contents is put back.                        *)
C14_InstallStepFailure ==
    InstallStepFailed =>
        /\ pc = "returned"
        /\ Last(trace).op \in InstallStepOps
        /\ ~Last(trace).ok
        /\ ~result.ok
        /\ result.v \in {"io: cannot open tarball", "io: extraction failed",
                         "io: cannot create bin directory", "io: cannot create symlink"}
        /\ "version" \notin Ops
        /\ Removed_Ok
        /\ dir[tv.version].files \in Written(Last(trace).op, staged[tv.version], host)
        /\ (\E id \in TarballIds : dir0[tv.version] = Layout(id, host)) =>
              (dir[tv.version] # dir0[tv.version])

\* A complete install of the same version was in place when the attempt
\* began, and the attempt failed creating the symlink.
C14_Witness ==
    /\ InstallStepFailed
    /\ pc = "returned"
    /\ Last(trace).op = "make_symlink"
    /\ \E id \in TarballIds : dir0[tv.version] = Layout(id, host)
    /\ Symlink \notin dir[tv.version].files

-----------------------------------------------------------------------------
InAttempt == pc \notin {"idle", "returned", "panicked"}

Others == VersionStrings \ {tv.version}

-----------------------------------------------------------------------------
Wrappers(id, h) == {e.path[1] : e \in Range(Tarball(id, h))}

Parent(p) == SubSeq(p, 1, Len(p) - 1)

(* C16: after a successful install on a unix host the directory has the    *)
(* entry bin/zls, a symlink to ../zls; on every host each archive entry    *)
(* below the archive's top-level component sits in the directory at its    *)
(* path without that component, and nothing sits under the component's     *)
(* name; and the path the version probe ran is an entry of the directory   *)
(* whose parent is the directory list_bin_paths returns (bin on unix, the  *)
(* install directory itself on windows).                                   *)
C16_Layout ==
    (pc = "returned" /\ result.ok) =>
        LET d  == dir[tv.version]
            id == staged[tv.version]
            p  == bin_path(host, "zls")
        IN /\ host.unix => Entry(<<"bin", "zls">>, "-> ../zls") \in d.files
           /\ \A e \in Range(Tarball(id, host)) :
                 Len(e.path) > 1 =>
                    Entry(SubSeq(e.path, 2, Len(e.path)), e.data) \in d.files
           /\ \A f \in d.files : f.path[1] \notin Wrappers(id, host)
           /\ Probed_Ok
           /\ \E f \in d.files : f.path = p
           /\ list_bin_paths(host) = {Parent(p)}
           /\ list_bin_paths(host) = IF host.unix THEN {<<"bin">>} ELSE {<< >>}

\* A successful install on a unix host of the archive that has a wrapper
\* directory entry and two files under it.
C16_Witness ==
    /\ pc = "returned"
    /\ result.ok
    /\ host.unix
    /\ staged[tv.version] = "A"
    /\ Entry(<<"README.md">>, "A:readme") \in dir[tv.version].files

-----------------------------------------------------------------------------
PublisherOses == {"macos", "linux", "freebsd"}

(* C17: for every build target the platform key is formed, and it is the   *)
(* OS name, "-", and the architecture name, where the OS name is the       *)
(* target's own name for macos, linux and freebsd and the native OS        *)
(* identifier otherwise, and the architecture name is "armv7a" for "arm"   *)
(* and the name as given for every other architecture.                     *)
C17_PlatformKey ==
    /\ platform_key = NoValue => ENABLED FormatOsKey
    /\ platform_key # NoValue =>
          platform_key = (IF host.target_os \in PublisherOses THEN host.target_os ELSE host.OS)
                \o "-" \o
                (IF host.arch = "arm" THEN "armv7a" ELSE host.arch)

\* The key of a 32-bit ARM target whose OS the publisher has no name for.
C17_Witness ==
    /\ host.target_os = "netbsd"
    /\ host.arch = "arm"
    /\ platform_key = "netbsd-armv7a"

-----------------------------------------------------------------------------
RunFinished == run_pc \in {"returned", "panicked"}

RunOps == {run_trace[i].op : i \in 1..Len(run_trace)}

\* What run has printed, in order.
Printed ==
    LET prints == SelectSeq(run_trace, LAMBDA c : c.op = "print")
    IN  [i \in 1..Len(prints) |-> prints[i].arg]

BothPrinted == << clear_old_env(shell_in_env, old_env), deactivate(shell_in_env) >>

\* C18 as stated: not activated, run returns the not-activated error without
\* detecting the shell or printing; activated, run prints the clear-old-
\* environment output, then the deactivation output, and returns success.
C18_ActivatedAlwaysSucceeds ==
    RunFinished =>
        IF ~activated
        THEN /\ run_result = err_inactive
             /\ "get_shell" \notin RunOps
             /\ Printed = << >>
        ELSE /\ Printed = BothPrinted
             /\ run_result = Ok("()")

(* C18, amended: not activated, run returns the not-activated error        *)
(* without detecting the shell and without attempting any print;           *)
(* activated with no detectable shell, run panics before any print;        *)
(* activated with a shell, run prints the clear-old-environment output     *)
(* first and the deactivation output second and returns success exactly    *)
(* when both prints succeeded, and otherwise returns the error of the      *)
(* print that failed, having attempted no print after it.                  *)
C18_Deactivate ==
    RunFinished =>
        /\ ~activated =>
              /\ run_pc = "returned"
              /\ run_result = err_inactive
              /\ RunOps = {"is_activated"}
        /\ (activated /\ shell_in_env = NoValue) =>
              /\ run_pc = "panicked"
              /\ run_result = NoShellDetected
              /\ RunOps = {"is_activated", "get_shell"}
        /\ (activated /\ shell_in_env # NoValue) =>
              /\ run_pc = "returned"
              /\ Printed \in {SubSeq(BothPrinted, 1, n) : n \in 0..2}
              /\ run_result.ok <=> Printed = BothPrinted
              /\ run_result.ok => run_result = Ok("()")
              /\ ~run_result.ok =>
                    /\ run_result = Err("io: cannot write to stdout")
                    /\ Last(run_trace).op = "print failed"
              /\ \A i \in 1..Len(run_trace) :
                    run_trace[i].op = "print failed" => i = Len(run_trace)

\* An activated fish session with recorded changes has been deactivated.
C18_Witness ==
    /\ run_pc = "returned"
    /\ activated
    /\ shell_in_env = "fish"
    /\ old_env = <<"PATH", "FOO">>
    /\ run_result.ok
    /\ Printed = BothPrinted

====
